---- MODULE Spec2Model ----
(***************************************************************************)
(* Model of academic_research/sub_agents/weather_agent/tools.py:           *)
(* retry_api_call (the backoff executor) and the two lookups built on it,  *)
(* get_lat_lng and get_weather, run as asyncio tasks on one event loop.    *)
(*                                                                         *)
(* Numbers.  Python floats are modelled in fixed point:                    *)
(*   - coordinates in units of 1/10000 degree (13.7563 is 137563);         *)
(*   - temperatures in units of 1/10 degree (25.6 is 256);                 *)
(*   - times in milliseconds (15.0 s is 15000); a jitter factor in         *)
(*     thousandths (0.2 is 200).                                           *)
(* Strings are TLA+ strings; a Python dict is a record (a function on its  *)
(* keys), so "key in d" is "key \in DOMAIN d".                             *)
(***************************************************************************)
EXTENDS Integers, Sequences, FiniteSets, TLC

VARIABLES
    inv,        \* inv[i]: the frame of invocation (asyncio task) i
    running,    \* the task that holds the event loop's thread, or NoTask
    env,        \* os.environ: GEO_API_KEY and WEATHER_API_KEY
    svc         \* what the outside answers: responses, op outcomes, jitter draws

vars == <<inv, running, env, svc>>

----------------------------------------------------------------------------
(* Bounds of the model. *)

\* retry_api_call is called directly with max_retries in -1..MaxRetriesBound.
MaxRetriesBound == 3
\* The number of invocations that run concurrently under ConcSpec.
NumTasks == 2

----------------------------------------------------------------------------
(* Python values. *)

None == "None"
NoTask == 0

Min(a, b) == IF a <= b THEN a ELSE b
Abs(x) == IF x < 0 THEN -x ELSE x

RECURSIVE Pow2(_)
\* 2.0 ** attempt of line 52, for attempt >= 0.
Pow2(n) == IF n <= 0 THEN 1 ELSE 2 * Pow2(n - 1)

RECURSIVE Pow10(_)
Pow10(n) == IF n <= 0 THEN 1 ELSE 10 * Pow10(n - 1)

\* Faulty variant of Truthy: "is not None" in place of truthiness.
KeyIsNotNone(v) == v # None

\* Python truthiness of os.getenv's result: None and "" are falsy.
Truthy(v) == v # None /\ v # ""

Return(v) == [kind |-> "return", value |-> v]
Raise(e) == [kind |-> "raise", exc |-> e]
\* An exception object: its class, str(e), and the op call that raised it
\* (the object's identity).
Exc(type, msg) == [type |-> type, msg |-> msg, at |-> 0]
\* last_exception = None, and the result of a call that has not finished.
NoExc == Exc("None", "")
NoResult == [kind |-> "pending"]
Ok(v) == [ok |-> TRUE, value |-> v]
Err(e) == [ok |-> FALSE, exc |-> e]

----------------------------------------------------------------------------
(* Formatting and parsing. *)

Digit(c) ==
    CASE c = "0" -> 0 [] c = "1" -> 1 [] c = "2" -> 2 [] c = "3" -> 3
      [] c = "4" -> 4 [] c = "5" -> 5 [] c = "6" -> 6 [] c = "7" -> 7
      [] c = "8" -> 8 [] c = "9" -> 9 [] OTHER -> -1

IsDigits(s) == Len(s) > 0 /\ \A k \in 1..Len(s) : Digit(SubSeq(s, k, k)) >= 0

RECURSIVE DigitsValue(_)
DigitsValue(s) ==
    IF Len(s) = 0 THEN 0
    ELSE 10 * DigitsValue(SubSeq(s, 1, Len(s) - 1)) + Digit(SubSeq(s, Len(s), Len(s)))

\* The position of the first "." of s, or 0.
DotAt(s) ==
    IF \E k \in 1..Len(s) : SubSeq(s, k, k) = "."
    THEN CHOOSE k \in 1..Len(s) :
            /\ SubSeq(s, k, k) = "."
            /\ \A j \in 1..(k - 1) : SubSeq(s, j, j) # "."
    ELSE 0

\* float(s) for a plain decimal literal with at most four decimals, in 1/10000;
\* anything else the model feeds it is not a number and raises ValueError.
ParseFloat(s) ==
    LET neg  == Len(s) > 0 /\ SubSeq(s, 1, 1) = "-"
        body == IF neg THEN SubSeq(s, 2, Len(s)) ELSE s
        dot  == DotAt(body)
        ip   == IF dot = 0 THEN body ELSE SubSeq(body, 1, dot - 1)
        fp   == IF dot = 0 THEN "" ELSE SubSeq(body, dot + 1, Len(body))
        good == /\ Len(ip) + Len(fp) > 0
                /\ Len(ip) > 0 => IsDigits(ip)
                /\ Len(fp) > 0 => IsDigits(fp)
                /\ Len(fp) <= 4
        mag  == DigitsValue(ip) * 10000 + DigitsValue(fp) * Pow10(4 - Len(fp))
    IN  IF good THEN Ok(IF neg THEN -mag ELSE mag)
        ELSE Err(Exc("ValueError", "could not convert string to float: '" \o s \o "'"))

\* n rounded to the nearest multiple of unit, ties to the even multiple: what
\* format() does with a float whose tie is exact in binary.
RoundHalfEven(n, unit) ==
    LET q == n \div unit
        r == n % unit
    IN  IF 2 * r > unit \/ (2 * r = unit /\ q % 2 = 1) THEN q + 1 ELSE q

TwoDigits(n) == IF n < 10 THEN "0" \o ToString(n) ELSE ToString(n)

\* f'{x:.2f}' for x in 1/10000: the sign is x's own, also when it rounds to 0.00.
Fmt2f(x) ==
    LET h == RoundHalfEven(Abs(x), 100)
    IN  (IF x < 0 THEN "-" ELSE "") \o ToString(h \div 100) \o "." \o TwoDigits(h % 100)

\* f'{t:.0f}' for t in 1/10.
Fmt0f(t) == (IF t < 0 THEN "-" ELSE "") \o ToString(RoundHalfEven(Abs(t), 10))

\* f'Location ({lat:.2f}, {lng:.2f})'
LocationLabel(lat, lng) == "Location (" \o Fmt2f(lat) \o ", " \o Fmt2f(lng) \o ")"

----------------------------------------------------------------------------
(* The geocoding request: _make_geocode_request.                           *)
(* A response is what client.get gives within the 30 s timeout: net is     *)
(* "timeout" when it does not, json says whether the body parses, data is  *)
(* the parsed body, a sequence of candidates.                              *)

GeoResponse(net, status, json, data) ==
    [net |-> net, status |-> status, json |-> json, data |-> data]

GeoTimeout == GeoResponse("timeout", 0, FALSE, <<>>)
Geo429 == GeoResponse("ok", 429, FALSE, <<>>)
GeoNotJson == GeoResponse("ok", 200, FALSE, <<>>)
GeoEmpty == GeoResponse("ok", 200, TRUE, <<>>)
GeoNoLon == GeoResponse("ok", 200, TRUE, <<[lat |-> "13.75"]>>)
GeoBadLat == GeoResponse("ok", 200, TRUE, <<[lat |-> "north", lon |-> "100.50"]>>)
GeoOne == GeoResponse("ok", 200, TRUE, <<[lat |-> "13.75", lon |-> "100.50"]>>)
GeoTwo == GeoResponse("ok", 200, TRUE,
            <<[lat |-> "-33.8688", lon |-> "151.2093"], [lat |-> "13.75", lon |-> "100.50"]>>)

GeoResponses == {GeoTimeout, Geo429, GeoEmpty, GeoNoLon, GeoOne, GeoTwo}

\* response.raise_for_status()
HttpError(status) ==
    Exc("HTTPStatusError",
        (IF status = 429 THEN "Client error '429 Too Many Requests'"
         ELSE "Server error '" \o ToString(status) \o "'") \o " for url")

\* Faulty variant of FirstCandidate: the last candidate is taken.
LastCandidate(data) ==
    LET c == data[Len(data)]
    IN  IF "lat" \notin DOMAIN c THEN Err(Exc("KeyError", "'lat'"))
        ELSE IF ~ParseFloat(c.lat).ok THEN ParseFloat(c.lat)
        ELSE IF "lon" \notin DOMAIN c THEN Err(Exc("KeyError", "'lon'"))
        ELSE IF ~ParseFloat(c.lon).ok THEN ParseFloat(c.lon)
        ELSE Ok([lat |-> ParseFloat(c.lat).value, lng |-> ParseFloat(c.lon).value])

\* The first candidate's coordinates: float(data[0]['lat']), float(data[0]['lon']).
FirstCandidate(data) ==
    LET c == data[1]
    IN  IF "lat" \notin DOMAIN c THEN Err(Exc("KeyError", "'lat'"))
        ELSE IF ~ParseFloat(c.lat).ok THEN ParseFloat(c.lat)
        ELSE IF "lon" \notin DOMAIN c THEN Err(Exc("KeyError", "'lon'"))
        ELSE IF ~ParseFloat(c.lon).ok THEN ParseFloat(c.lon)
        ELSE Ok([lat |-> ParseFloat(c.lat).value, lng |-> ParseFloat(c.lon).value])

\* if data and len(data) > 0: a non-empty candidate list.
HasCandidates(data) == Len(data) > 0

\* Faulty variant of GeocodeRequest: an empty candidate list is not raised
\* (and so not retried) but answered with the fallback at once.
GeocodeRequestFailFast(r, location_description) ==
    IF r.net = "timeout" THEN Err(Exc("ReadTimeout", "The read operation timed out"))
    ELSE IF r.status >= 400 THEN Err(HttpError(r.status))
    ELSE IF ~r.json THEN Err(Exc("JSONDecodeError", "Expecting value: line 1 column 1 (char 0)"))
    ELSE IF HasCandidates(r.data) THEN FirstCandidate(r.data)
    ELSE Ok([lat |-> 137563, lng |-> 1005018])

\* One call of _make_geocode_request that gets response r.
GeocodeRequest(r, location_description) ==
    IF r.net = "timeout" THEN Err(Exc("ReadTimeout", "The read operation timed out"))
    ELSE IF r.status >= 400 THEN Err(HttpError(r.status))
    ELSE IF ~r.json THEN Err(Exc("JSONDecodeError", "Expecting value: line 1 column 1 (char 0)"))
    ELSE IF HasCandidates(r.data) THEN FirstCandidate(r.data)
    ELSE Err(Exc("ValueError", "No coordinates found for location: " \o location_description))

\* The Bangkok fallback of lines 85 and 117.
BangkokFallback == [lat |-> 137563, lng |-> 1005018]

----------------------------------------------------------------------------
(* The weather request: _make_weather_request.  body is the parsed JSON    *)
(* object; temperatureApparent is in 1/10 degree, the other numbers are    *)
(* JSON integers.                                                          *)

WeatherResponse(net, status, json, body) ==
    [net |-> net, status |-> status, json |-> json, body |-> body]

NoBody == [message |-> ""]
WTimeout == WeatherResponse("timeout", 0, FALSE, NoBody)
W429 == WeatherResponse("ok", 429, FALSE, NoBody)
WNotJson == WeatherResponse("ok", 200, FALSE, NoBody)
WNoData == WeatherResponse("ok", 200, TRUE, [message |-> "no data"])
WNoValues == WeatherResponse("ok", 200, TRUE, [data |-> [time |-> "2025-01-01T00:00:00Z"]])
WNoTemp == WeatherResponse("ok", 200, TRUE,
            [data |-> [values |-> [weatherCode |-> 1000, humidity |-> 80],
                       time |-> "2025-01-01T00:00:00Z"]])
WRain == WeatherResponse("ok", 200, TRUE,
            [data |-> [values |-> [temperatureApparent |-> 256, weatherCode |-> 4001,
                                   humidity |-> 80, windSpeed |-> 3],
                       time |-> "2025-01-01T00:00:00Z"]])
WBare == WeatherResponse("ok", 200, TRUE,
            [data |-> [values |-> [temperatureApparent |-> 245]]])
WOddCode == WeatherResponse("ok", 200, TRUE,
            [data |-> [values |-> [temperatureApparent |-> -4, weatherCode |-> 9999,
                                   windSpeed |-> 12],
                       time |-> "2025-01-01T00:00:00Z"]])
WClear == WeatherResponse("ok", 200, TRUE,
            [data |-> [values |-> [temperatureApparent |-> 310, weatherCode |-> 1000,
                                   humidity |-> 45, windSpeed |-> 2],
                       time |-> "2025-01-01T06:00:00Z"]])
WStorm == WeatherResponse("ok", 200, TRUE,
            [data |-> [values |-> [temperatureApparent |-> 275, weatherCode |-> 8000,
                                   humidity |-> 95, windSpeed |-> 9],
                       time |-> "2025-01-01T12:00:00Z"]])

WeatherResponses ==
    {WTimeout, W429, WNoData, WNoValues, WNoTemp, WRain, WBare, WOddCode, WClear, WStorm}

code_lookup ==
    1000 :> "Clear, Sunny" @@ 1100 :> "Mostly Clear" @@ 1101 :> "Partly Cloudy" @@
    1102 :> "Mostly Cloudy" @@ 1001 :> "Cloudy" @@ 2000 :> "Fog" @@ 2100 :> "Light Fog" @@
    4000 :> "Drizzle" @@ 4001 :> "Rain" @@ 4200 :> "Light Rain" @@ 4201 :> "Heavy Rain" @@
    5000 :> "Snow" @@ 5001 :> "Flurries" @@ 5100 :> "Light Snow" @@ 5101 :> "Heavy Snow" @@
    6000 :> "Freezing Drizzle" @@ 6001 :> "Freezing Rain" @@
    6200 :> "Light Freezing Rain" @@ 6201 :> "Heavy Freezing Rain" @@
    7000 :> "Ice Pellets" @@ 7101 :> "Heavy Ice Pellets" @@ 7102 :> "Light Ice Pellets" @@
    8000 :> "Thunderstorm"

\* Faulty variant of Description: code_lookup.get(code) without the default.
DescriptionNoDefault(values) ==
    IF "weatherCode" \in DOMAIN values /\ values.weatherCode \in DOMAIN code_lookup
    THEN code_lookup[values.weatherCode]
    ELSE "None"

\* code_lookup.get(values.get('weatherCode'), 'Unknown')
Description(values) ==
    IF "weatherCode" \in DOMAIN values /\ values.weatherCode \in DOMAIN code_lookup
    THEN code_lookup[values.weatherCode]
    ELSE "Unknown"

\* f'{values.get("humidity", "N/A")}%'
Humidity(values) ==
    (IF "humidity" \in DOMAIN values THEN ToString(values.humidity) ELSE "N/A") \o "%"

\* f'{values.get("windSpeed", "N/A")} m/s'
WindSpeed(values) ==
    (IF "windSpeed" \in DOMAIN values THEN ToString(values.windSpeed) ELSE "N/A") \o " m/s"

\* data.get('data', {}).get('time', 'Unknown time')
Timestamp(body) ==
    IF "data" \in DOMAIN body /\ "time" \in DOMAIN body.data THEN body.data.time
    ELSE "Unknown time"

\* The report of lines 189-196.
WeatherReport(body, lat, lng) ==
    LET values == body.data.values
    IN  [temperature |-> Fmt0f(values.temperatureApparent) \o "C",
         description |-> Description(values),
         humidity    |-> Humidity(values),
         wind_speed  |-> WindSpeed(values),
         location    |-> LocationLabel(lat, lng),
         timestamp   |-> Timestamp(body)]

\* One call of _make_weather_request that gets response r.
WeatherRequest(r, lat, lng) ==
    IF r.net = "timeout" THEN Err(Exc("ReadTimeout", "The read operation timed out"))
    ELSE IF r.status >= 400 THEN Err(HttpError(r.status))
    ELSE IF ~r.json THEN Err(Exc("JSONDecodeError", "Expecting value: line 1 column 1 (char 0)"))
    ELSE IF "data" \notin DOMAIN r.body \/ "values" \notin DOMAIN r.body.data
         THEN Err(Exc("ValueError", "Invalid weather API response format"))
    ELSE IF "temperatureApparent" \notin DOMAIN r.body.data.values
         THEN Err(Exc("KeyError", "'temperatureApparent'"))
    ELSE Ok(WeatherReport(r.body, lat, lng))

\* Faulty variant of DummyWeather: the no-key report carries the note too.
DummyWeatherWithNote(lat, lng) ==
    [temperature |-> "28C",
     description |-> "Partly Cloudy",
     location    |-> LocationLabel(lat, lng),
     note        |-> "Weather data temporarily unavailable due to API limits"]

\* The report returned without a key, lines 135-139.
DummyWeather(lat, lng) ==
    [temperature |-> "28C",
     description |-> "Partly Cloudy",
     location    |-> LocationLabel(lat, lng)]

\* Faulty variant of UnavailableWeather: the note is left out.
UnavailableWeatherNoNote(lat, lng) ==
    [temperature |-> "28C",
     description |-> "Partly Cloudy",
     location    |-> LocationLabel(lat, lng)]

\* The report returned when the executor gave up, lines 205-210.
UnavailableWeather(lat, lng) ==
    [temperature |-> "28C",
     description |-> "Partly Cloudy",
     location    |-> LocationLabel(lat, lng),
     note        |-> "Weather data temporarily unavailable due to API limits"]

----------------------------------------------------------------------------
(* The backoff executor: retry_api_call.                                   *)

\* min(..., 15.0) of line 52, in milliseconds.
DelayCap == 15000

\* Faulty variant of LoopBound: range(max_retries).
LoopBoundShort(max_retries) == max_retries

\* for attempt in range(max_retries + 1): the number of iterations.
LoopBound(max_retries) == max_retries + 1

\* Faulty variant of IsFinalAttempt: gives up one attempt early.
IsFinalAttemptEarly(attempt, max_retries) == attempt = max_retries - 1

\* Faulty variant of IsFinalAttempt: the attempt counter is a module-level
\* variable, so an invocation gives up once any invocation's counter is there.
IsFinalAttemptShared(attempt, max_retries) ==
    \E j \in DOMAIN inv : inv[j].retry_calls > 0 /\ inv[j].attempt >= max_retries

\* Faulty variant of IsFinalAttempt: the test never holds inside the loop, so
\* the last failure is followed by a sleep and the code after the loop.
IsFinalAttemptNever(attempt, max_retries) == attempt > max_retries

\* if attempt == max_retries
IsFinalAttempt(attempt, max_retries) == attempt = max_retries

\* Faulty variant of Delay: the 15 s cap is missing.
DelayUncapped(base_delay, attempt) == base_delay * Pow2(attempt)

\* delay = min(base_delay * (2.0 ** attempt), 15.0)
Delay(base_delay, attempt) == Min(base_delay * Pow2(attempt), DelayCap)

\* Faulty variant of Jitter: a draw of 0.2 to 0.5 seconds, not of the delay.
JitterAbsolute(delay, u) == u

\* jitter = random.uniform(0.2, 0.5) * delay, for the draw u in thousandths.
Jitter(delay, u) == (u * delay) \div 1000

\* total_delay = delay + jitter, with its parts kept.
Wait(base_delay, attempt, u) ==
    [delay  |-> Delay(base_delay, attempt),
     jitter |-> Jitter(Delay(base_delay, attempt), u)]

TotalDelay(w) == w.delay + w.jitter

\* Faulty variant of AwaitSleep: time.sleep, which keeps the thread.
BlockingSleep(i) == i

\* await asyncio.sleep(total_delay) gives the thread back to the event loop.
AwaitSleep(i) == NoTask

\* The policies the lookups pass to retry_api_call.
GeocodeMaxRetries == 3
GeocodeBaseDelay == 2000
WeatherMaxRetries == 3
WeatherBaseDelay == 3000

----------------------------------------------------------------------------
(* Invocations. *)

\* The frame of a call that has not started.
NewFrame(kind, args) ==
    [kind           |-> kind,
     args           |-> args,
     pc             |-> "start",
     max_retries    |-> 0,
     base_delay     |-> 0,
     attempt        |-> 0,
     last_exception |-> NoExc,
     result         |-> NoResult,
     calls          |-> 0,      \* calls of func() made by retry_api_call
     requests       |-> 0,      \* HTTP requests issued
     conn           |-> 0,      \* httpx.AsyncClient contexts open
     retry_calls    |-> 0,      \* calls of retry_api_call
     waits          |-> <<>>,   \* the sleeps made, in order
     log            |-> <<>>,   \* the error types printed at line 60, in order
     outcomes       |-> <<>>]   \* what each func() call met, in order

Args(location_description, lat, lng, max_retries, base_delay) ==
    [location_description |-> location_description, lat |-> lat, lng |-> lng,
     max_retries |-> max_retries, base_delay |-> base_delay]

GeocodeCall(location_description) ==
    NewFrame("geocode", Args(location_description, 0, 0, 0, 0))
WeatherCall(lat, lng) == NewFrame("weather", Args("", lat, lng, 0, 0))
RetryCall(max_retries, base_delay) ==
    NewFrame("retry", Args("", 0, 0, max_retries, base_delay))

Tasks == DOMAIN inv

\* What func() meets on one call: a response for a lookup's request, and the
\* outcome itself for an operation passed to retry_api_call directly.
Answers(f) ==
    CASE f.kind = "geocode" -> svc.geocode
      [] f.kind = "weather" -> svc.weather
      [] OTHER -> svc.op

\* await func(): the value returned or the exception raised.
OpOutcome(f, o) ==
    CASE f.kind = "geocode" -> GeocodeRequest(o, f.args.location_description)
      [] f.kind = "weather" -> WeatherRequest(o, f.args.lat, f.args.lng)
      [] OTHER -> o

Finish(f, r) == [f EXCEPT !.pc = "done", !.result = r]

\* Faulty variant of Propagate: the lookups do not catch.
PropagateUncaught(f, e) == Raise(e)

\* An exception e leaves retry_api_call: the lookups' "except Exception"
\* (lines 114-117 and 202-210) turn it into the fallback; a direct caller gets it.
Propagate(f, e) ==
    CASE f.kind = "geocode" -> Return(BangkokFallback)
      [] f.kind = "weather" -> Return(UnavailableWeather(f.args.lat, f.args.lng))
      [] OTHER -> Raise(e)

\* str.lower() on one character.
LowerChar(c) ==
    CASE c = "A" -> "a" [] c = "B" -> "b" [] c = "C" -> "c" [] c = "D" -> "d"
      [] c = "E" -> "e" [] c = "F" -> "f" [] c = "G" -> "g" [] c = "H" -> "h"
      [] c = "I" -> "i" [] c = "J" -> "j" [] c = "K" -> "k" [] c = "L" -> "l"
      [] c = "M" -> "m" [] c = "N" -> "n" [] c = "O" -> "o" [] c = "P" -> "p"
      [] c = "Q" -> "q" [] c = "R" -> "r" [] c = "S" -> "s" [] c = "T" -> "t"
      [] c = "U" -> "u" [] c = "V" -> "v" [] c = "W" -> "w" [] c = "X" -> "x"
      [] c = "Y" -> "y" [] c = "Z" -> "z" [] OTHER -> c

\* Character k of s.lower().
LowerAt(s, k) == LowerChar(SubSeq(s, k, k))

\* sub in s
Contains(s, sub) ==
    \E k \in 1..(Len(s) - Len(sub) + 1) : SubSeq(s, k, k + Len(sub) - 1) = sub

\* sub in s.lower()
ContainsLower(s, sub) ==
    \E k \in 1..(Len(s) - Len(sub) + 1) :
        \A j \in 1..Len(sub) : LowerAt(s, k + j - 1) = SubSeq(sub, j, j)

\* error_type = "rate limit" if "429" in str(e) or "rate" in str(e).lower()
\*              else "API error"
ErrorType(e) ==
    IF Contains(e.msg, "429") \/ ContainsLower(e.msg, "rate")
    THEN "rate limit" ELSE "API error"

\* Faulty variant of Catch: an error that is not a rate limit is not retried.
CatchFailFast(f, e) ==
    IF ErrorType(e) = "rate limit"
    THEN [f EXCEPT !.last_exception = [e EXCEPT !.at = f.calls]]
    ELSE [f EXCEPT !.last_exception = [e EXCEPT !.at = f.calls],
                   !.attempt = f.max_retries]

\* Faulty variant of Catch: only the first exception is kept.
CatchKeepFirst(f, e) ==
    IF f.last_exception = NoExc
    THEN [f EXCEPT !.last_exception = [e EXCEPT !.at = f.calls]]
    ELSE f

\* except Exception as e: last_exception = e (lines 44-45); e is the exception
\* object raised by call number f.calls.
Catch(f, e) == [f EXCEPT !.last_exception = [e EXCEPT !.at = f.calls]]

\* Faulty variant of ClientExit: the client is created without "async with"
\* and never closed.
ClientLeak(f) == f

\* The end of "async with httpx.AsyncClient() as client" (lines 88 and 169):
\* the client is closed however the block is left.
ClientExit(f) == [f EXCEPT !.conn = IF f.kind = "retry" THEN @ ELSE @ - 1]

\* return await func(), up to the await inside func: the request is sent.
CallOp(f) ==
    [f EXCEPT !.pc = "inflight",
              !.calls = @ + 1,
              !.requests = IF f.kind = "retry" THEN @ ELSE @ + 1,
              !.conn = IF f.kind = "retry" THEN @ ELSE @ + 1]

\* Lines 65-67, after the loop.
AfterLoop(f) ==
    IF f.last_exception # NoExc
    THEN Finish(f, Propagate(f, f.last_exception))
    ELSE Finish(f, Return(None))

\* The loop header: the next iteration, or the loop's end.
LoopNext(f) == IF f.attempt < LoopBound(f.max_retries) THEN CallOp(f) ELSE AfterLoop(f)

\* Faulty variant of EnterRetry: a lookup that finished earlier in the process
\* left its result in a cache, and a later call of the same kind returns it
\* without a request.
EnterRetryCached(f, max_retries, base_delay) ==
    IF \E j \in DOMAIN inv : inv[j].pc = "done" /\ inv[j].kind = f.kind
    THEN Finish(f, inv[CHOOSE j \in DOMAIN inv :
                            inv[j].pc = "done" /\ inv[j].kind = f.kind].result)
    ELSE LoopNext([f EXCEPT !.retry_calls = @ + 1,
                            !.max_retries = max_retries,
                            !.base_delay = base_delay,
                            !.last_exception = NoExc,
                            !.attempt = 0])

\* retry_api_call(func, max_retries, base_delay) up to its first await.
EnterRetry(f, max_retries, base_delay) ==
    LoopNext([f EXCEPT !.retry_calls = @ + 1,
                       !.max_retries = max_retries,
                       !.base_delay = base_delay,
                       !.last_exception = NoExc,
                       !.attempt = 0])

\* The call starts: the key is read, and without one the fallback is returned.
Invoke(i) ==
    /\ running = NoTask
    /\ inv[i].pc = "start"
    /\ LET f == inv[i]
       IN  inv' = [inv EXCEPT ![i] =
                CASE f.kind = "geocode" ->
                        IF ~Truthy(env.GEO_API_KEY)
                        THEN Finish(f, Return(BangkokFallback))
                        ELSE EnterRetry(f, GeocodeMaxRetries, GeocodeBaseDelay)
                  [] f.kind = "weather" ->
                        IF ~Truthy(env.WEATHER_API_KEY)
                        THEN Finish(f, Return(DummyWeather(f.args.lat, f.args.lng)))
                        ELSE EnterRetry(f, WeatherMaxRetries, WeatherBaseDelay)
                  [] OTHER -> EnterRetry(f, f.args.max_retries, f.args.base_delay)]
    /\ UNCHANGED <<running, env, svc>>

\* func() returns: line 43 returns its value at once.
AttemptSucceeds(i) ==
    /\ running = NoTask
    /\ inv[i].pc = "inflight"
    /\ \E o \in Answers(inv[i]) :
        LET f == inv[i]
            r == OpOutcome(f, o)
        IN  /\ r.ok
            /\ inv' = [inv EXCEPT ![i] =
                    Finish([ClientExit(f) EXCEPT !.outcomes = Append(@, o)],
                           Return(r.value))]
    /\ UNCHANGED <<running, env, svc>>

\* func() raises: lines 44-45.  The task runs on without awaiting.
AttemptFails(i) ==
    /\ running = NoTask
    /\ inv[i].pc = "inflight"
    /\ \E o \in Answers(inv[i]) :
        LET f == inv[i]
            r == OpOutcome(f, o)
        IN  /\ ~r.ok
            /\ inv' = [inv EXCEPT ![i] =
                    [Catch(ClientExit(f), r.exc) EXCEPT !.pc = "except",
                                                        !.outcomes = Append(@, o)]]
    /\ running' = i
    /\ UNCHANGED <<env, svc>>

\* Lines 47-49: the last attempt failed, raise e.
RaiseFinal(i) ==
    /\ running = i
    /\ inv[i].pc = "except"
    /\ IsFinalAttempt(inv[i].attempt, inv[i].max_retries)
    /\ inv' = [inv EXCEPT ![i] = Finish(@, Propagate(@, @.last_exception))]
    /\ running' = NoTask
    /\ UNCHANGED <<env, svc>>

\* Faulty variant of Backoff: the next attempt follows without a sleep.
BackoffNoSleep(i) ==
    /\ running = i
    /\ inv[i].pc = "except"
    /\ ~IsFinalAttempt(inv[i].attempt, inv[i].max_retries)
    /\ inv' = [inv EXCEPT ![i] = [@ EXCEPT !.pc = "waiting"]]
    /\ running' = NoTask
    /\ UNCHANGED <<env, svc>>

\* Lines 51-63: compute the delay, draw the jitter, sleep.
Backoff(i) ==
    /\ running = i
    /\ inv[i].pc = "except"
    /\ ~IsFinalAttempt(inv[i].attempt, inv[i].max_retries)
    /\ \E u \in svc.jitter :
        inv' = [inv EXCEPT ![i] =
                    [@ EXCEPT !.pc = "waiting",
                              !.log = Append(@, ErrorType(inv[i].last_exception)),
                              !.waits = Append(@, Wait(inv[i].base_delay, inv[i].attempt, u))]]
    /\ running' = AwaitSleep(i)
    /\ UNCHANGED <<env, svc>>

\* The sleep ends and the loop goes on with the next attempt.
WakeUp(i) ==
    /\ running \in {NoTask, i}
    /\ inv[i].pc = "waiting"
    /\ inv' = [inv EXCEPT ![i] = LoopNext([@ EXCEPT !.attempt = @ + 1])]
    /\ running' = NoTask
    /\ UNCHANGED <<env, svc>>

\* Any step of invocation i.
Step(i) ==
    \/ Invoke(i)
    \/ AttemptSucceeds(i)
    \/ AttemptFails(i)
    \/ RaiseFinal(i)
    \/ Backoff(i)
    \/ WakeUp(i)

Next ==
    \/ \E i \in Tasks : Invoke(i)
    \/ \E i \in Tasks : AttemptSucceeds(i)
    \/ \E i \in Tasks : AttemptFails(i)
    \/ \E i \in Tasks : RaiseFinal(i)
    \/ \E i \in Tasks : Backoff(i)
    \/ \E i \in Tasks : WakeUp(i)

----------------------------------------------------------------------------
(* The inputs. *)

\* os.getenv gives None for an unset variable; a variable may be set but empty.
Keys == {None, "", "secret"}

Environment(geo, weather) == [GEO_API_KEY |-> geo, WEATHER_API_KEY |-> weather]

\* Each key unset, empty and set, alone and together with the other.
Environments ==
    {Environment(None, None), Environment("", "secret"),
     Environment("secret", ""), Environment("secret", "secret")}

Locations == {"Bangkok", "Pirate Bay"}

\* Coordinates in 1/10000 degree; a .2f tie among them (0.125) is exact in binary.
Coordinates == {<<137563, 1005018>>, <<1250, -10>>, <<-338688, 1512093>>}

\* base_delay in milliseconds: never capped, capped at the last retry, capped at once.
BaseDelays == {500, 3000, 20000}

\* random.uniform(0.2, 0.5), in thousandths.
JitterDraws == {200, 350, 500}

\* The outcomes of an operation handed to retry_api_call directly.
OpOutcomes ==
    {Ok("sunny"), Ok("rainy"),
     Err(Exc("RuntimeError", "429 Too Many Requests")),
     Err(Exc("RuntimeError", "Rate exceeded")),
     Err(Exc("TimeoutError", "timed out"))}

FullService ==
    [geocode |-> GeoResponses, weather |-> WeatherResponses,
     op |-> OpOutcomes, jitter |-> JitterDraws]

AllCalls ==
    {GeocodeCall(l) : l \in Locations}
        \cup {WeatherCall(c[1], c[2]) : c \in Coordinates}
        \cup {RetryCall(m, b) : m \in -1..MaxRetriesBound, b \in BaseDelays}

\* One invocation, every input and every answer.
Init ==
    /\ inv \in [1..1 -> AllCalls]
    /\ running = NoTask
    /\ env \in Environments
    /\ svc = FullService

Spec == Init /\ [][Next]_vars

----------------------------------------------------------------------------
(* Two or more invocations on one event loop, with a small service. *)

SmallService ==
    [geocode |-> {GeoTimeout, GeoOne}, weather |-> {WTimeout, WRain},
     op |-> {Ok("sunny"), Err(Exc("TimeoutError", "timed out"))}, jitter |-> {350}]

ConcCalls == {GeocodeCall("Bangkok"), WeatherCall(137563, 1005018), RetryCall(1, 500)}

ConcInit ==
    /\ inv \in [1..NumTasks -> ConcCalls]
    /\ running = NoTask
    /\ env \in {Environment("secret", "secret"), Environment("", "secret")}
    /\ svc = SmallService

ConcSpec == ConcInit /\ [][Next]_vars

\* The same direct call twice, each run meeting errors and jitter of its own.
PairCalls == {RetryCall(2, 3000)}

PairService ==
    [FullService EXCEPT !.op = OpOutcomes \ {Ok("rainy")}, !.jitter = {200, 500}]

PairInit ==
    /\ inv \in {[k \in 1..2 |-> c] : c \in PairCalls}
    /\ running = NoTask
    /\ env = Environment("secret", "secret")
    /\ svc = PairService

PairSpec == PairInit /\ [][Next]_vars

\* One lookup, every input and every answer, one jitter draw.
FairInit ==
    /\ inv \in [1..1 -> {f \in AllCalls : f.kind \in {"geocode", "weather"}}]
    /\ running = NoTask
    /\ env \in Environments
    /\ svc = [FullService EXCEPT !.jitter = {350}]

\* Every attempt ends (the 30 s timeout at the latest) and every sleep ends.
FairSpec == FairInit /\ [][Next]_vars /\ WF_vars(Next)

----------------------------------------------------------------------------
(* The same lookup called twice in sequence against a deterministic backend. *)

\* A backend that gives the same answer to the same request: one answer per
\* endpoint, every answer of either endpoint in turn.  The jitter draws stay free.
DeterministicServices ==
    {[geocode |-> {g}, weather |-> {WRain}, op |-> OpOutcomes, jitter |-> JitterDraws] :
        g \in GeoResponses}
    \cup
    {[geocode |-> {GeoOne}, weather |-> {w}, op |-> OpOutcomes, jitter |-> JitterDraws] :
        w \in WeatherResponses}

\* r1 = await lookup(x); r2 = await lookup(x)
SeqInit ==
    /\ inv \in {[k \in 1..2 |-> c] : c \in {f \in AllCalls : f.kind \in {"geocode", "weather"}}}
    /\ running = NoTask
    /\ env \in Environments
    /\ svc \in DeterministicServices

\* The second call starts when the first has returned.
SeqOrder(i) == \A j \in Tasks : j < i => inv[j].pc = "done"

SeqNext ==
    \/ \E i \in Tasks : SeqOrder(i) /\ Invoke(i)
    \/ \E i \in Tasks : SeqOrder(i) /\ AttemptSucceeds(i)
    \/ \E i \in Tasks : SeqOrder(i) /\ AttemptFails(i)
    \/ \E i \in Tasks : SeqOrder(i) /\ RaiseFinal(i)
    \/ \E i \in Tasks : SeqOrder(i) /\ Backoff(i)
    \/ \E i \in Tasks : SeqOrder(i) /\ WakeUp(i)

SeqSpec == SeqInit /\ [][SeqNext]_vars

----------------------------------------------------------------------------
(* What the properties speak of. *)

Lookup(f) == f.kind \in {"geocode", "weather"}
DirectCall(f) == f.kind = "retry"

HasKey(f) ==
    CASE f.kind = "geocode" -> Truthy(env.GEO_API_KEY)
      [] f.kind = "weather" -> Truthy(env.WEATHER_API_KEY)
      [] OTHER -> TRUE

\* Call number n of func() failed.
FailedAt(f, n) == ~OpOutcome(f, f.outcomes[n]).ok
AllFailed(f) == \A n \in 1..Len(f.outcomes) : FailedAt(f, n)
LastSucceeded(f) == Len(f.outcomes) > 0 /\ ~FailedAt(f, Len(f.outcomes))

RECURSIVE SumWaits(_)
SumWaits(ws) == IF ws = <<>> THEN 0 ELSE TotalDelay(Head(ws)) + SumWaits(Tail(ws))

----------------------------------------------------------------------------
(* C1: an operation that fails k <= max_retries times and then succeeds:   *)
(* retry_api_call returns the value of the successful call, has called the *)
(* operation exactly k + 1 times, never calls it after the success, and    *)
(* has not given up after k <= max_retries failures.                       *)

C1_ReturnsFirstSuccess ==
    \A i \in Tasks :
        LET f == inv[i]
            n == Len(f.outcomes)
        IN  (DirectCall(f) /\ f.args.max_retries >= 0) =>
                /\ f.calls = n + (IF f.pc = "inflight" THEN 1 ELSE 0)
                /\ \A m \in 1..(n - 1) : FailedAt(f, m)
                /\ LastSucceeded(f) =>
                        /\ f.pc = "done"
                        /\ f.result = Return(f.outcomes[n].value)
                        /\ f.calls = n
                        /\ n - 1 <= f.args.max_retries
                /\ (f.pc = "done" /\ n <= f.args.max_retries) => LastSucceeded(f)

\* Three failures, then a success on the last attempt max_retries = 3 allows.
C1_Witness ==
    \E i \in Tasks :
        /\ DirectCall(inv[i]) /\ inv[i].args.max_retries = 3
        /\ inv[i].pc = "done" /\ Len(inv[i].outcomes) = 4
        /\ LastSucceeded(inv[i])
        /\ inv[i].result = Return("rainy")

(* C2: an operation that always fails is called exactly max_retries + 1    *)
(* times (4 times for max_retries = 3, once for 0), and retry_api_call     *)
(* then raises the exception of the last call, not an earlier one.         *)

C2_RaisesLastError ==
    \A i \in Tasks :
        LET f == inv[i]
            n == Len(f.outcomes)
        IN  (DirectCall(f) /\ f.args.max_retries >= 0) =>
                /\ f.calls <= f.args.max_retries + 1
                /\ (f.pc = "done" /\ AllFailed(f)) =>
                        /\ f.calls = f.args.max_retries + 1
                        /\ n = f.calls
                        /\ f.args.max_retries = 3 => f.calls = 4
                        /\ f.result.kind = "raise"
                        /\ f.result.exc.at = n
                        /\ f.result.exc.type = f.outcomes[n].exc.type
                        /\ f.result.exc.msg = f.outcomes[n].exc.msg
                /\ f.result.kind = "raise" => (f.pc = "done" /\ AllFailed(f))

\* Four failures with max_retries = 3, the first and the last of them different.
C2_Witness ==
    \E i \in Tasks :
        /\ DirectCall(inv[i]) /\ inv[i].args.max_retries = 3
        /\ inv[i].pc = "done" /\ inv[i].calls = 4
        /\ inv[i].result.kind = "raise"
        /\ inv[i].outcomes[1].exc.msg = "Rate exceeded"
        /\ inv[i].result.exc.msg = "timed out"

(* C3: get_lat_lng and get_weather never raise: whatever the service       *)
(* answers on each attempt, at every point of the retry sequence the       *)
(* lookup has either not finished or has returned a value, coordinates or  *)
(* a report; no exception leaves it.                                       *)

C3_LookupsNeverRaise ==
    \A i \in Tasks :
        LET f == inv[i]
        IN  Lookup(f) =>
                /\ f.result.kind \in {"pending", "return"}
                /\ f.pc = "done" <=> f.result.kind = "return"
                /\ (f.pc = "done" /\ f.kind = "geocode") =>
                        DOMAIN f.result.value = {"lat", "lng"}
                /\ (f.pc = "done" /\ f.kind = "weather") =>
                        {"temperature", "description", "location"} \subseteq DOMAIN f.result.value

\* A lookup that returned after its fourth attempt failed too.
C3_Witness ==
    \E i \in Tasks :
        /\ Lookup(inv[i]) /\ inv[i].pc = "done"
        /\ inv[i].calls = 4 /\ AllFailed(inv[i])
        /\ inv[i].result.kind = "return"

(* C4: without a geocoding key (unset or empty) get_lat_lng returns        *)
(* exactly {lat: 13.7563, lng: 100.5018} in its first step: no request, no *)
(* call of retry_api_call, no wait.                                        *)

C4_NoKeyGeocode ==
    \A i \in Tasks :
        LET f == inv[i]
        IN  (f.kind = "geocode" /\ env.GEO_API_KEY \in {None, ""}) =>
                /\ f.pc \in {"start", "done"}
                /\ f.requests = 0 /\ f.calls = 0 /\ f.retry_calls = 0 /\ f.conn = 0
                /\ f.waits = <<>>
                /\ f.pc = "done" => f.result = Return([lat |-> 137563, lng |-> 1005018])

\* The key is set but empty, and the lookup has returned.
C4_Witness ==
    \E i \in Tasks :
        /\ inv[i].kind = "geocode" /\ env.GEO_API_KEY = ""
        /\ inv[i].args.location_description = "Pirate Bay"
        /\ inv[i].pc = "done" /\ inv[i].result.kind = "return"

\* f'{x:.2f}' of the coordinates of the model, as Python prints them.
C5_TwoDecimals ==
    137563 :> "13.76" @@ 1005018 :> "100.50" @@ 1250 :> "0.12" @@ -10 :> "-0.00" @@
    -338688 :> "-33.87" @@ 1512093 :> "151.21"

(* C5: without a weather key get_weather returns exactly the report        *)
(* {temperature: "28C", description: "Partly Cloudy", location:            *)
(* "Location (<lat, 2 decimals>, <lng, 2 decimals>)"}, with no note and no *)
(* other field, without a request and without a wait.                      *)

C5_NoKeyWeather ==
    \A i \in Tasks :
        LET f == inv[i]
        IN  (f.kind = "weather" /\ env.WEATHER_API_KEY \in {None, ""}) =>
                /\ f.pc \in {"start", "done"}
                /\ f.requests = 0 /\ f.calls = 0 /\ f.waits = <<>>
                /\ f.pc = "done" =>
                        f.result =
                            Return([temperature |-> "28C",
                                    description |-> "Partly Cloudy",
                                    location |-> "Location (" \o C5_TwoDecimals[f.args.lat]
                                                    \o ", " \o C5_TwoDecimals[f.args.lng] \o ")"])

\* The report for (0.125, -0.001), whose label is "Location (0.12, -0.00)".
C5_Witness ==
    \E i \in Tasks :
        /\ inv[i].kind = "weather" /\ env.WEATHER_API_KEY = None
        /\ inv[i].args.lat = 1250
        /\ inv[i].pc = "done"
        /\ inv[i].result.value.location = "Location (0.12, -0.00)"

(* C6: with a weather key and every attempt failing, get_weather returns,  *)
(* after 4 attempts, the report {temperature: "28C", description: "Partly  *)
(* Cloudy", location, note: weather data temporarily unavailable}; a note  *)
(* is on this result only, not on a successful attempt's report nor on the *)
(* report returned without a key.                                          *)

C6_ExhaustedWeather ==
    \A i \in Tasks :
        LET f == inv[i]
        IN  (f.kind = "weather" /\ f.pc = "done") =>
                /\ (HasKey(f) /\ AllFailed(f)) =>
                        /\ f.calls = 4 /\ f.requests = 4
                        /\ f.result =
                            Return([temperature |-> "28C",
                                    description |-> "Partly Cloudy",
                                    location |-> LocationLabel(f.args.lat, f.args.lng),
                                    note |-> "Weather data temporarily unavailable due to API limits"])
                /\ "note" \in DOMAIN f.result.value <=>
                        (HasKey(f) /\ AllFailed(f) /\ Len(f.outcomes) = 4)

\* Four timeouts in a row, and the report with the note.
C6_Witness ==
    \E i \in Tasks :
        /\ inv[i].kind = "weather" /\ inv[i].pc = "done"
        /\ inv[i].outcomes = <<WTimeout, WTimeout, WTimeout, WTimeout>>
        /\ "note" \in DOMAIN inv[i].result.value
        /\ inv[i].result.value.description = "Partly Cloudy"

\* A weather body without data, without data.values or without temperatureApparent.
C7_Malformed(r) ==
    /\ r.net = "ok" /\ r.status = 200 /\ r.json
    /\ \/ "data" \notin DOMAIN r.body
       \/ "values" \notin DOMAIN r.body.data
       \/ "temperatureApparent" \notin DOMAIN r.body.data.values

\* A successful geocoding answer with no candidate.
C7_Empty(r) == r.net = "ok" /\ r.status = 200 /\ r.json /\ r.data = <<>>

(* C7: an empty or malformed answer is retried like any other failure:     *)
(* with a key, a geocoding service that always answers 200 with no         *)
(* candidate (a weather service that always answers without data.values or *)
(* temperatureApparent) gets exactly 4 requests with 3 waits between them, *)
(* and only then the lookup returns the fallback (the report with note).   *)

C7_MalformedIsRetried ==
    \A i \in Tasks :
        LET f == inv[i]
            n == Len(f.outcomes)
        IN  /\ (f.kind = "geocode" /\ HasKey(f) /\ n > 0
                    /\ \A m \in 1..n : C7_Empty(f.outcomes[m])) =>
                    /\ f.requests = n + (IF f.pc = "inflight" THEN 1 ELSE 0)
                    /\ Len(f.waits) = f.requests - (IF f.pc = "waiting" THEN 0 ELSE 1)
                    /\ f.pc = "done" =>
                            /\ f.requests = 4 /\ Len(f.waits) = 3
                            /\ f.result = Return([lat |-> 137563, lng |-> 1005018])
            /\ (f.kind = "weather" /\ HasKey(f) /\ n > 0
                    /\ \A m \in 1..n : C7_Malformed(f.outcomes[m])) =>
                    /\ f.requests = n + (IF f.pc = "inflight" THEN 1 ELSE 0)
                    /\ Len(f.waits) = f.requests - (IF f.pc = "waiting" THEN 0 ELSE 1)
                    /\ f.pc = "done" =>
                            /\ f.requests = 4 /\ Len(f.waits) = 3
                            /\ "note" \in DOMAIN f.result.value
                            /\ f.result.value.temperature = "28C"

\* Four empty candidate lists, three waits, and the Bangkok fallback.
C7_Witness ==
    \E i \in Tasks :
        /\ inv[i].kind = "geocode" /\ inv[i].pc = "done"
        /\ inv[i].outcomes = <<GeoEmpty, GeoEmpty, GeoEmpty, GeoEmpty>>
        /\ Len(inv[i].waits) = 3 /\ inv[i].requests = 4
        /\ inv[i].result.value = [lat |-> 137563, lng |-> 1005018]

\* The terminal state of a finished lookup, read off its history.
C8_Terminal(f) ==
    CASE LastSucceeded(f) -> "SUCCESS_RETURN"
      [] OTHER -> "FALLBACK_RETURN"

C8_Shape ==
    \A i \in Tasks :
        LET f == inv[i]
            n == Len(f.outcomes)
        IN  Lookup(f) =>
                /\ f.calls <= 4
                /\ \A m \in 1..(n - 1) : FailedAt(f, m)
                /\ f.pc = "done" =>
                    /\ f.result.kind = "return"
                    /\ C8_Terminal(f) = "SUCCESS_RETURN" =>
                            /\ n = f.calls /\ n \in 1..4
                            /\ f.result.value = OpOutcome(f, f.outcomes[n]).value
                    /\ C8_Terminal(f) = "FALLBACK_RETURN" =>
                            \/ ~HasKey(f) /\ f.calls = 0 /\ n = 0
                            \/ HasKey(f) /\ f.calls = 4 /\ n = 4 /\ AllFailed(f)

C8_AllDone == \A i \in Tasks : inv[i].pc = "done"

(* C8: when every attempt and every wait ends, each lookup invocation      *)
(* reaches a terminal state and takes no step after it; FALLBACK_RETURN is *)
(* reached only without a key and with no attempt made, or after attempt 4 *)
(* (max_retries + 1) failed; SUCCESS_RETURN only by a successful attempt   *)
(* numbered 1 to 4, whose value is returned; there are never more than 4   *)
(* attempts.                                                               *)

C8_StateMachine ==
    /\ []C8_Shape
    /\ <>C8_AllDone
    /\ [][\A i \in Tasks : inv[i].pc = "done" => inv'[i] = inv[i]]_vars

\* A lookup that succeeded on its fourth attempt.
C8_Witness ==
    \E i \in Tasks :
        /\ Lookup(inv[i]) /\ inv[i].pc = "done"
        /\ inv[i].calls = 4 /\ Len(inv[i].waits) = 3
        /\ C8_Terminal(inv[i]) = "SUCCESS_RETURN"

(* C9: with max_retries = 3 the waits of one run of retry_api_call add up  *)
(* to at most 4 x (15.0 x 1.5) = 90 seconds, whatever base_delay > 0 and   *)
(* whatever the jitter draws in [0.2, 0.5]; so in particular when every    *)
(* attempt fails.                                                          *)

C9_CumulativeWait ==
    \A i \in Tasks :
        LET f == inv[i]
        IN  (f.retry_calls > 0 /\ f.max_retries = 3) => SumWaits(f.waits) <= 90000

\* All four attempts failed with base_delay = 20 s and the largest jitter:
\* three waits of 22.5 s.
C9_Witness ==
    \E i \in Tasks :
        /\ DirectCall(inv[i]) /\ inv[i].max_retries = 3 /\ inv[i].base_delay = 20000
        /\ inv[i].pc = "done" /\ inv[i].result.kind = "raise"
        /\ SumWaits(inv[i].waits) = 67500

(* C10: a sleeping invocation holds nobody up: whenever invocation a is in *)
(* its backoff wait, every other invocation b that has not returned can    *)
(* take its next step, unless a third invocation that is not waiting is    *)
(* running at that moment.                                                 *)

C10_SleepBlocksNobody ==
    \A a \in Tasks : \A b \in Tasks :
        (a # b /\ inv[a].pc = "waiting" /\ inv[b].pc # "done") =>
            \/ ENABLED Step(b)
            \/ running \in Tasks \ {a, b} /\ inv[running].pc # "waiting"

\* One invocation sleeps while another has a request in flight.
C10_Witness ==
    \E a \in Tasks : \E b \in Tasks :
        /\ a # b
        /\ inv[a].pc = "waiting"
        /\ inv[b].pc = "inflight"
        /\ inv[b].calls = 2

----------------------------------------------------------------------------
(* C11: invocations on one event loop are independent.  In every           *)
(* interleaving each invocation's number of attempts, its pre-jitter waits *)
(* and its returned value are what its own inputs, its credential and the  *)
(* answers to its own requests give when it runs alone, and a step of one  *)
(* invocation changes no other invocation's variables nor the environment. *)

\* The retry policy an invocation runs with when it runs alone.
C11_Policy(f) ==
    CASE f.kind = "geocode" -> [max_retries |-> 3, base_delay |-> 2000]
      [] f.kind = "weather" -> [max_retries |-> 3, base_delay |-> 3000]
      [] OTHER -> [max_retries |-> f.args.max_retries, base_delay |-> f.args.base_delay]

\* What an invocation that has met the answers f.outcomes has done and
\* returned when nothing else runs, from its inputs and its credential only.
C11_Alone(f) ==
    LET n == Len(f.outcomes)
        p == C11_Policy(f)
        last == OpOutcome(f, f.outcomes[n])
    IN  /\ f.pc = "start" => f.calls = 0 /\ n = 0 /\ f.waits = <<>>
        /\ ~HasKey(f) => f.calls = 0 /\ n = 0 /\ f.waits = <<>>
        /\ f.calls = n + (IF f.pc = "inflight" THEN 1 ELSE 0)
        /\ n <= p.max_retries + 1
        /\ Len(f.waits) = (IF f.pc = "waiting" \/ f.calls = 0 THEN n ELSE f.calls - 1)
        /\ \A k \in 1..Len(f.waits) :
                f.waits[k].delay = Min(p.base_delay * Pow2(k - 1), 15000)
        /\ \A k \in 1..(n - 1) : FailedAt(f, k)
        /\ f.pc = "done" => \/ ~HasKey(f)
                            \/ n > 0 /\ last.ok
                            \/ n > 0 /\ n = p.max_retries + 1 /\ ~last.ok
        /\ (f.pc # "start" /\ ~HasKey(f)) => f.pc = "done"
        /\ (n > 0 /\ last.ok) => f.pc = "done"
        /\ (n > 0 /\ n = p.max_retries + 1) => f.pc \in {"except", "done"}
        /\ f.pc # "done" => f.result = NoResult
        /\ f.pc = "done" =>
                f.result =
                    CASE ~HasKey(f) /\ f.kind = "geocode" ->
                            Return([lat |-> 137563, lng |-> 1005018])
                      [] ~HasKey(f) /\ f.kind = "weather" ->
                            Return(DummyWeather(f.args.lat, f.args.lng))
                      [] HasKey(f) /\ last.ok -> Return(last.value)
                      [] HasKey(f) /\ ~last.ok /\ f.kind = "geocode" ->
                            Return([lat |-> 137563, lng |-> 1005018])
                      [] HasKey(f) /\ ~last.ok /\ f.kind = "weather" ->
                            Return(UnavailableWeather(f.args.lat, f.args.lng))
                      [] OTHER -> Raise([last.exc EXCEPT !.at = n])

\* A step changes the variables of one invocation at most, and never the
\* environment or the inputs of an invocation.
C11_OwnVariablesOnly ==
    /\ env' = env
    /\ \E i \in Tasks : \A j \in Tasks \ {i} : inv'[j] = inv[j]
    /\ \A i \in Tasks : inv'[i].kind = inv[i].kind /\ inv'[i].args = inv[i].args

----------------------------------------------------------------------------
(* C12: a lookup holds at most one open connection, and holds it exactly   *)
(* while one of its attempts is in progress: the connection opened for an  *)
(* attempt is closed when the attempt ends, by success or by any failure,  *)
(* so none is open during a backoff wait or after the lookup returned, and *)
(* each attempt opened a connection of its own.                            *)

C12_ConnectionPerAttempt ==
    \A i \in Tasks :
        LET f == inv[i]
        IN  /\ f.conn \in {0, 1}
            /\ Lookup(f) => (f.conn = 1) = (f.pc = "inflight")
            /\ f.pc \in {"start", "except", "waiting", "done"} => f.conn = 0
            /\ Lookup(f) => f.requests = f.calls
            /\ DirectCall(f) => f.conn = 0 /\ f.requests = 0

\* A weather lookup in its second backoff wait, after an attempt that ended
\* with an HTTP error and one that ended with a body without data.
C12_Witness ==
    \E i \in Tasks :
        /\ inv[i].kind = "weather" /\ inv[i].pc = "waiting"
        /\ inv[i].outcomes = <<W429, WNoData>>
        /\ inv[i].requests = 2 /\ inv[i].conn = 0

----------------------------------------------------------------------------
(* C13: a lookup called twice in sequence with the same inputs, the same   *)
(* credential and a backend that answers the same request the same way     *)
(* returns the same output both times after the same number of attempts    *)
(* and requests: the first call leaves nothing behind that the second one  *)
(* meets.                                                                  *)

C13_Idempotent ==
    /\ inv[2].pc # "start" => inv[1].pc = "done"
    /\ inv[2].pc = "done" =>
            /\ inv[2].result = inv[1].result
            /\ inv[2].calls = inv[1].calls
            /\ inv[2].requests = inv[1].requests
            /\ Len(inv[2].waits) = Len(inv[1].waits)
    /\ inv[2].pc = "start" => inv[2] = NewFrame(inv[2].kind, inv[2].args)

\* Both calls done: a geocoding lookup that met the same empty answer at all
\* four attempts of either call, with different jitter in the two runs.
C13_Witness ==
    /\ inv[1].pc = "done" /\ inv[2].pc = "done"
    /\ inv[1].kind = "geocode" /\ svc.geocode = {GeoEmpty}
    /\ inv[1].calls = 4 /\ inv[2].calls = 4
    /\ inv[1].waits # inv[2].waits
    /\ inv[2].result = Return(BangkokFallback)

----------------------------------------------------------------------------
(* C14: when an attempt of get_lat_lng, made with a key, receives a        *)
(* successful response with a non-empty list of candidates, the lookup     *)
(* returns the numbers written in the first candidate's lat and lon,       *)
(* whatever candidates follow, and makes no further attempt.               *)

\* The numbers the coordinate strings of the answers denote, in 1/10000 degree.
C14_Number(s) ==
    CASE s = "13.75" -> 137500
      [] s = "100.50" -> 1005000
      [] s = "-33.8688" -> -338688
      [] s = "151.2093" -> 1512093

\* A successful response whose first candidate has lat and lon.
C14_Candidates(r) ==
    /\ r.net = "ok" /\ r.status = 200 /\ r.json
    /\ Len(r.data) > 0
    /\ {"lat", "lon"} \subseteq DOMAIN r.data[1]

C14_FirstCandidate ==
    \A i \in Tasks :
        LET f == inv[i]
            n == Len(f.outcomes)
        IN  (f.kind = "geocode" /\ n > 0 /\ C14_Candidates(f.outcomes[n])) =>
                /\ f.pc = "done"
                /\ f.calls = n /\ f.requests = n
                /\ f.result = Return([lat |-> C14_Number(f.outcomes[n].data[1].lat),
                                      lng |-> C14_Number(f.outcomes[n].data[1].lon)])

\* After a rate-limited attempt, an answer with two candidates: the first one
\* (Sydney) is returned, not the second (13.75, 100.50).
C14_Witness ==
    \E i \in Tasks :
        /\ inv[i].kind = "geocode" /\ inv[i].pc = "done"
        /\ inv[i].outcomes = <<Geo429, GeoTwo>>
        /\ inv[i].calls = 2
        /\ inv[i].result = Return([lat |-> -338688, lng |-> 1512093])

----------------------------------------------------------------------------
(* C15: in the report of a successful weather attempt the description is   *)
(* the label the code table gives to the response's weatherCode (4001 is   *)
(* "Rain", 1000 is "Clear, Sunny", 8000 is "Thunderstorm") and "Unknown"   *)
(* for a code that is not in the table or a weatherCode that is absent; a  *)
(* response with such a code still ends the lookup at that attempt.        *)

\* The label expected for the weatherCode of a response's values.
C15_Label(values) ==
    IF "weatherCode" \notin DOMAIN values THEN "Unknown"
    ELSE CASE values.weatherCode = 4001 -> "Rain"
           [] values.weatherCode = 1000 -> "Clear, Sunny"
           [] values.weatherCode = 8000 -> "Thunderstorm"
           [] OTHER -> "Unknown"

\* A successful response that carries the apparent temperature.
C15_Reportable(r) ==
    /\ r.net = "ok" /\ r.status = 200 /\ r.json
    /\ "data" \in DOMAIN r.body /\ "values" \in DOMAIN r.body.data
    /\ "temperatureApparent" \in DOMAIN r.body.data.values

C15_Description ==
    \A i \in Tasks :
        LET f == inv[i]
            n == Len(f.outcomes)
        IN  (f.kind = "weather" /\ n > 0 /\ C15_Reportable(f.outcomes[n])) =>
                /\ f.pc = "done"
                /\ f.calls = n
                /\ f.result.kind = "return"
                /\ f.result.value.description = C15_Label(f.outcomes[n].body.data.values)

\* A report for the code 9999, which the table does not have, at the first
\* attempt.
C15_Witness ==
    \E i \in Tasks :
        /\ inv[i].kind = "weather" /\ inv[i].pc = "done"
        /\ inv[i].outcomes = <<WOddCode>>
        /\ inv[i].calls = 1
        /\ inv[i].result.value.description = "Unknown"

----------------------------------------------------------------------------
(* C16: in the report of a successful weather attempt, humidity is the     *)
(* response's humidity value followed by "%" and exactly "N/A" when the    *)
(* response has no humidity; wind speed is the windSpeed value followed by *)
(* " m/s" and exactly "N/A" when the response has no windSpeed.            *)

\* The claim as stated.  The code appends the unit to the default as well
\* (lines 192-193), so a response without the fields refutes it.
C16_NotAvailable ==
    \A i \in Tasks :
        LET f == inv[i]
            n == Len(f.outcomes)
            values == f.outcomes[n].body.data.values
        IN  (f.kind = "weather" /\ n > 0 /\ C15_Reportable(f.outcomes[n])) =>
                /\ f.result.value.humidity =
                        (IF "humidity" \in DOMAIN values
                         THEN ToString(values.humidity) \o "%" ELSE "N/A")
                /\ f.result.value.wind_speed =
                        (IF "windSpeed" \in DOMAIN values
                         THEN ToString(values.windSpeed) \o " m/s" ELSE "N/A")

----------------------------------------------------------------------------
(* C17: the k-th wait of a run of retry_api_call, made after the failure   *)
(* of attempt k, is delay + jitter with delay = min(base_delay x 2^(k-1),  *)
(* 15 s) and jitter between 0.2 x delay and 0.5 x delay; so the wait lies  *)
(* between 1.2 x delay and 1.5 x delay, is never above 22.5 s, and the     *)
(* delays of a run never decrease: 2, 4, 8 s for geocoding and 3, 6, 12 s  *)
(* for weather.  Times are in milliseconds.                                *)

C17_Prefix(s, t) == Len(s) <= Len(t) /\ s = SubSeq(t, 1, Len(s))

C17_WaitFormula ==
    \A i \in Tasks :
        LET f == inv[i]
            delays == [k \in 1..Len(f.waits) |-> f.waits[k].delay]
        IN  /\ \A k \in 1..Len(f.waits) :
                LET w == f.waits[k]
                    raw == f.base_delay * 2^(k - 1)
                IN  /\ w.delay = (IF raw < 15000 THEN raw ELSE 15000)
                    /\ 5 * w.jitter >= w.delay
                    /\ 2 * w.jitter <= w.delay
                    /\ 10 * (w.delay + w.jitter) >= 12 * w.delay
                    /\ 10 * (w.delay + w.jitter) <= 15 * w.delay
                    /\ w.delay + w.jitter <= 22500
                    /\ k > 1 => f.waits[k - 1].delay <= w.delay
                    /\ FailedAt(f, k)
            /\ f.kind = "geocode" => C17_Prefix(delays, <<2000, 4000, 8000>>)
            /\ f.kind = "weather" => C17_Prefix(delays, <<3000, 6000, 12000>>)
            /\ DirectCall(f) => f.base_delay \in {0, f.args.base_delay}

\* A direct call with base_delay = 3 s in its third wait: the delays 3, 6 and
\* 12 s with the jitter draws 0.2, 0.35 and 0.5.
C17_Witness ==
    \E i \in Tasks :
        /\ DirectCall(inv[i]) /\ inv[i].pc = "waiting"
        /\ inv[i].waits = <<[delay |-> 3000, jitter |-> 600],
                            [delay |-> 6000, jitter |-> 2100],
                            [delay |-> 12000, jitter |-> 6000]>>

----------------------------------------------------------------------------
(* C18: the classification of an error touches the log message only.  Two  *)
(* runs of retry_api_call with the same max_retries and base_delay, the    *)
(* same pattern of failed and successful attempts and the same jitter      *)
(* draws have the same number of attempts, the same waits and the same     *)
(* kind of outcome, whatever the messages and types of their errors; the   *)
(* label printed for a failure is "rate limit" when its message has "429"  *)
(* or, in any case, "rate", and "API error" otherwise.  A run that has     *)
(* ended is not continued by a run with the same pattern so far.           *)

\* Which attempts of a run failed, in order.
C18_Pattern(f) == [k \in 1..Len(f.outcomes) |-> FailedAt(f, k)]

\* The jitter draws of a run, in thousandths, read back from its waits.
C18_Draws(f) == [k \in 1..Len(f.waits) |-> (f.waits[k].jitter * 1000) \div f.waits[k].delay]

\* The label the messages of the operation's errors get.
C18_Label(msg) ==
    CASE msg = "429 Too Many Requests" -> "rate limit"
      [] msg = "Rate exceeded" -> "rate limit"
      [] msg = "timed out" -> "API error"

C18_LabelOnly ==
    /\ \A a \in Tasks : \A b \in Tasks :
        LET f == inv[a]
            g == inv[b]
        IN  (/\ f.args = g.args
             /\ C18_Pattern(f) = C18_Pattern(g)
             /\ f.pc = g.pc
             /\ C18_Draws(f) = C18_Draws(g)) =>
                /\ f.calls = g.calls
                /\ f.attempt = g.attempt
                /\ f.waits = g.waits
                /\ f.result.kind = g.result.kind
                /\ Len(f.log) = Len(g.log)
    /\ \A a \in Tasks : \A b \in Tasks :
        LET f == inv[a]
            g == inv[b]
        IN  (/\ f.args = g.args
             /\ f.pc = "done"
             /\ C17_Prefix(C18_Pattern(f), C18_Pattern(g))) =>
                /\ C18_Pattern(f) = C18_Pattern(g)
                /\ g.pc \in {"done", "except"}
    /\ \A a \in Tasks :
        /\ Len(inv[a].log) = Len(inv[a].waits)
        /\ \A k \in 1..Len(inv[a].log) :
                inv[a].log[k] = C18_Label(inv[a].outcomes[k].exc.msg)

\* Two runs that failed twice and then succeeded, one on rate limits and one
\* on timeouts: the same attempts and waits, different labels.
C18_Witness ==
    \E a \in Tasks : \E b \in Tasks :
        /\ inv[a].pc = "done" /\ inv[b].pc = "done"
        /\ inv[a].calls = 3 /\ inv[b].calls = 3
        /\ inv[a].waits = inv[b].waits /\ Len(inv[a].waits) = 2
        /\ inv[a].result = Return("sunny") /\ inv[b].result = Return("sunny")
        /\ inv[a].log = <<"rate limit", "rate limit">>
        /\ inv[b].log = <<"API error", "API error">>

----------------------------------------------------------------------------
(* C19: for every max_retries >= 0, retry_api_call calls the operation at  *)
(* least once and ends in one of two ways only: it returns the value of a  *)
(* successful call, or it raises the error of failed call number           *)
(* max_retries + 1 from inside the loop.  The loop never runs out, so the  *)
(* code after it is not reached and no run ends without a value or an      *)
(* error.  For max_retries < 0 the loop body does not run: the operation   *)
(* is never called and the run ends after the loop, returning None.        *)

\* The loop of a finished run ran out: the code after the loop ended the run.
C19_AfterLoop(f) == f.pc = "done" /\ f.attempt >= f.max_retries + 1

C19_TwoExits ==
    \A i \in Tasks :
        LET f == inv[i]
            n == Len(f.outcomes)
        IN  DirectCall(f) =>
                /\ (f.args.max_retries >= 0 /\ f.pc # "start") => f.calls >= 1
                /\ (f.args.max_retries >= 0 /\ f.pc = "done") =>
                        /\ ~C19_AfterLoop(f)
                        /\ f.result # Return(None)
                        /\ \/ /\ ~FailedAt(f, n)
                              /\ f.result = Return(f.outcomes[n].value)
                           \/ /\ n = f.args.max_retries + 1
                              /\ FailedAt(f, n)
                              /\ f.attempt = f.args.max_retries
                              /\ f.result = Raise([f.outcomes[n].exc EXCEPT !.at = n])
                /\ (f.args.max_retries < 0 /\ f.pc # "start") =>
                        /\ C19_AfterLoop(f)
                        /\ f.calls = 0 /\ n = 0
                        /\ f.result = Return(None)

\* A run with max_retries = 0: one call, which failed, and its error raised.
C19_Witness ==
    \E i \in Tasks :
        /\ DirectCall(inv[i]) /\ inv[i].args.max_retries = 0
        /\ inv[i].pc = "done" /\ inv[i].calls = 1
        /\ inv[i].waits = <<>>
        /\ inv[i].result.kind = "raise"
        /\ inv[i].result.exc.msg = "Rate exceeded"

----------------------------------------------------------------------------
(* C20: the attempts and the waits of a run of retry_api_call alternate,   *)
(* beginning and ending with an attempt.  A wait begins only right after a *)
(* failed attempt that is not the last one allowed, and an attempt begins  *)
(* only at the start of the run or right after a wait; so there is no wait *)
(* before the first attempt, after a success or after the failure of       *)
(* attempt max_retries + 1, a finished run of n attempts has made n - 1    *)
(* waits, and a run whose attempts all failed has made max_retries waits.  *)

\* The counts at every moment of a run.
C20_Counts ==
    \A i \in Tasks :
        LET f == inv[i]
            n == Len(f.waits)
        IN  /\ f.pc = "waiting" => n = f.calls /\ f.calls >= 1
            /\ (f.pc \in {"inflight", "except"}) => n = f.calls - 1
            /\ (f.pc = "done" /\ f.calls > 0) => n = f.calls - 1
            /\ f.calls = 0 => n = 0
            /\ (f.pc = "done" /\ f.calls > 0 /\ AllFailed(f)) =>
                    n = f.max_retries /\ f.calls = f.max_retries + 1

\* What a step that begins a wait, or an attempt, follows.
C20_Order ==
    \A i \in Tasks :
        LET f == inv[i]
            g == inv'[i]
        IN  /\ Len(g.waits) # Len(f.waits) =>
                /\ Len(g.waits) = Len(f.waits) + 1
                /\ f.pc = "except" /\ g.pc = "waiting"
                /\ FailedAt(f, Len(f.outcomes))
                /\ Len(f.outcomes) = f.calls
                /\ f.calls <= f.max_retries
                /\ g.calls = f.calls
            /\ g.calls # f.calls =>
                /\ g.calls = f.calls + 1
                /\ g.pc = "inflight"
                /\ f.pc \in {"start", "waiting"}
                /\ Len(g.waits) = Len(f.waits)
            /\ f.pc = "waiting" => g.pc \in {"waiting", "inflight"}

C20_Alternation == []C20_Counts /\ [][C20_Order]_vars

\* An always-failing run with max_retries = 3 that has ended: four attempts
\* and three waits.
C20_Witness ==
    \E i \in Tasks :
        /\ DirectCall(inv[i]) /\ inv[i].max_retries = 3
        /\ inv[i].pc = "done" /\ AllFailed(inv[i])
        /\ inv[i].calls = 4 /\ Len(inv[i].waits) = 3
        /\ inv[i].result.kind = "raise"

====
